---- MODULE Spec2Model ----
(***************************************************************************)
(* A model of the orchestration core of chatgpt_web_automator:             *)
(*   - utils/errors.py            the error classifier (detect_error)      *)
(*   - orchestrator/browser_pool.py     BrowserSessionPool                 *)
(*   - orchestrator/browser_session.py  BrowserSession.ask (retry loop)    *)
(*   - automator/web_automator.py send_message and _wait_stream_finished   *)
(*   - utils/chat_backend.py      ChatBackendClient.wait_for_completion   *)
(*   - api/chat_service.py        _handle_completions                     *)
(*   - automator/locators.py      the text of the length bubble            *)
(*   - main.py                    its own _wait_stream_finished            *)
(*                                                                         *)
(* Texts are sequences of one-character strings, so that strip(), lower(), *)
(* rstrip() and len() are computed as Python computes them.                *)
(***************************************************************************)
EXTENDS Integers, Sequences, FiniteSets, TLC

(***************************************************************************)
(* Text helpers (Python str methods used by the code)                      *)
(***************************************************************************)

\* Python's str.strip() with no argument removes leading and trailing
\* whitespace; the model's alphabet has these whitespace characters.
Whitespace == {" ", "\t", "\n"}

UpperLetters ==
    <<"A", "B", "C", "D", "E", "F", "G", "H", "I", "J", "K", "L", "M",
      "N", "O", "P", "Q", "R", "S", "T", "U", "V", "W", "X", "Y", "Z">>

LowerLetters ==
    <<"a", "b", "c", "d", "e", "f", "g", "h", "i", "j", "k", "l", "m",
      "n", "o", "p", "q", "r", "s", "t", "u", "v", "w", "x", "y", "z">>

\* str.lower() on one character
LowerChar(c) ==
    IF \E i \in 1..Len(UpperLetters) : UpperLetters[i] = c
    THEN LowerLetters[CHOOSE i \in 1..Len(UpperLetters) : UpperLetters[i] = c]
    ELSE c

\* str.lower().  (A Python argument is evaluated once, before the call: x
\* is the value of s.)
Lower(s) ==
    CHOOSE r \in {[i \in 1..Len(x) |-> LowerChar(x[i])] : x \in {s}} : TRUE

\* str.lstrip(chars): drop the longest prefix made of characters of chars
LStrip(s, chars) ==
    CHOOSE r \in
        { IF \A i \in 1..Len(x) : x[i] \in chars THEN <<>>
          ELSE SubSeq(x,
                      CHOOSE i \in 1..Len(x) :
                          /\ x[i] \notin chars
                          /\ \A j \in 1..(i - 1) : x[j] \in chars,
                      Len(x))
          : x \in {s} } : TRUE

\* str.rstrip(chars): drop the longest suffix made of characters of chars
RStrip(s, chars) ==
    CHOOSE r \in
        { IF \A i \in 1..Len(x) : x[i] \in chars THEN <<>>
          ELSE SubSeq(x, 1,
                      CHOOSE i \in 1..Len(x) :
                          /\ x[i] \notin chars
                          /\ \A j \in (i + 1)..Len(x) : x[j] \in chars)
          : x \in {s} } : TRUE

\* str.strip()
Strip(s) == RStrip(LStrip(s, Whitespace), Whitespace)

\* Python truthiness of a str or a list: non-empty
Truthy(s) == s # <<>>

(***************************************************************************)
(* utils/errors.py                                                         *)
(***************************************************************************)

\* class ErrorType(str, Enum)
ErrorType == {"none", "network", "length", "generic"}

\* ErrorType.X.name.lower(), as text
NameNone ==
    <<"n", "o", "n", "e">>

NameNetwork ==
    <<"n", "e", "t", "w", "o", "r", "k">>

NameLength ==
    <<"l", "e", "n", "g", "t", "h">>

NameGeneric ==
    <<"g", "e", "n", "e", "r", "i", "c">>

NameLower(e) ==
    CASE e = "none" -> NameNone
      [] e = "network" -> NameNetwork
      [] e = "length" -> NameLength
      [] e = "generic" -> NameGeneric

\* _NETWORK_PATTERNS
PatNetworkOccurred ==
    <<"a", " ", "n", "e", "t", "w", "o", "r", "k", " ", "e", "r", "r", "o",
      "r", " ", "o", "c", "c", "u", "r", "r", "e", "d">>

PatNetworkError ==
    <<"n", "e", "t", "w", "o", "r", "k", " ", "e", "r", "r", "o", "r">>

_NETWORK_PATTERNS == {PatNetworkOccurred, PatNetworkError}

\* _LENGTH_PATTERNS
PatSubmittedTooLong ==
    <<"t", "h", "e", " ", "m", "e", "s", "s", "a", "g", "e", " ", "y", "o",
      "u", " ", "s", "u", "b", "m", "i", "t", "t", "e", "d", " ", "w", "a",
      "s", " ", "t", "o", "o", " ", "l", "o", "n", "g">>

PatMessageTooLong ==
    <<"m", "e", "s", "s", "a", "g", "e", " ", "t", "o", "o", " ", "l", "o",
      "n", "g">>

_LENGTH_PATTERNS == {PatSubmittedTooLong, PatMessageTooLong}

\* Genuine error bubbles are concise; anything longer is a normal reply.
_MAX_ERROR_CHARS == 180

\* text.strip().lower().rstrip(".! ")
_canonical(text) == RStrip(Lower(Strip(text)), {".", "!", " "})

\* sub in s (Python's substring test)
Contains(s, sub) ==
    \E i \in 0..(Len(s) - Len(sub)) : SubSeq(s, i + 1, i + Len(sub)) = sub

\* variant: the text is compared as it is, without canonicalisation
_matches_raw(text, patterns) == text \in patterns

\* variant: a pattern anywhere in the canonical text counts as a match
_matches_contained(text, patterns) ==
    \E p \in patterns : Contains(_canonical(text), p)

_matches_exact(text, patterns) == _canonical(text) \in patterns

\* variant: an empty chunk list is taken for a normal reply
EmptyChunksNone == "none"

\* if not chunks: return ErrorType.GENERIC
EmptyChunksType == "generic"

\* variant: the first chunk is taken for the authoritative one
FirstChunk(chunks) == chunks[1]

\* chunks[-1]
LastChunk(chunks) == chunks[Len(chunks)]

\* variant: no ceiling on the length of an error bubble
ExceedsMaxNever(last) == FALSE

\* len(last) > _MAX_ERROR_CHARS
ExceedsMax(last) == Len(last) > _MAX_ERROR_CHARS

detect_error(chunks) ==
    IF ~Truthy(chunks) THEN EmptyChunksType
    ELSE LET last == Strip(LastChunk(chunks))
         IN  IF ExceedsMax(last) THEN "none"
             ELSE IF _matches_exact(last, _LENGTH_PATTERNS) THEN "length"
             ELSE IF _matches_exact(last, _NETWORK_PATTERNS) THEN "network"
             ELSE "none"

(***************************************************************************)
(* Texts and replies the automation driver can produce                     *)
(***************************************************************************)

\* f"error: {...}" prefix of every terminal error of BrowserSession.ask
ErrorPrefix ==
    <<"e", "r", "r", "o", "r", ":", " ">>

\* the literal "network error" of the exception handler
TxtNetworkError ==
    <<"n", "e", "t", "w", "o", "r", "k", " ", "e", "r", "r", "o", "r">>

\* Texts the page can show (what blk.text can be)
TxtHello ==
    <<"H", "e", "l", "l", "o">>

TxtNetBubble ==
    <<"A", " ", "n", "e", "t", "w", "o", "r", "k", " ", "e", "r", "r", "o",
      "r", " ", "o", "c", "c", "u", "r", "r", "e", "d", ".">>

TxtLenBubble ==
    <<"T", "h", "e", " ", "m", "e", "s", "s", "a", "g", "e", " ", "y", "o",
      "u", " ", "s", "u", "b", "m", "i", "t", "t", "e", "d", " ", "w", "a",
      "s", " ", "t", "o", "o", " ", "l", "o", "n", "g", ".">>

\* the text of the length bubble that Locators.ERROR_BLOCK_XPATH looks for
TxtLenBubbleFull ==
    <<"T", "h", "e", " ", "m", "e", "s", "s", "a", "g", "e", " ", "y", "o",
      "u", " ", "s", "u", "b", "m", "i", "t", "t", "e", "d", " ", "w", "a",
      "s", " ", "t", "o", "o", " ", "l", "o", "n", "g", ",", " ", "p", "l",
      "e", "a", "s", "e", " ", "r", "e", "l", "o", "a", "d", " ", "t", "h",
      "e", " ", "c", "o", "n", "v", "e", "r", "s", "a", "t", "i", "o", "n",
      " ", "a", "n", "d", " ", "s", "u", "b", "m", "i", "t", " ", "s", "o",
      "m", "e", "t", "h", "i", "n", "g", " ", "s", "h", "o", "r", "t", "e",
      "r", ".">>

\* What send_message can hand back: one text per assistant (or error) block.
Replies ==
    { <<>>,
      <<TxtHello>>,
      <<TxtNetBubble>>,
      <<TxtLenBubble>>,
      <<TxtNetBubble, TxtHello>> }

(***************************************************************************)
(* Bounds                                                                  *)
(***************************************************************************)

\* number of threads that call into the pool concurrently
NumThreads == 2

\* largest configured NETWORK_ERROR_RETRIES explored
MaxRetries == 2

Threads == 1..NumThreads

\* BrowserSession objects are numbered in construction order (their uuid4)
SessionIds == 1..NumThreads

\* Python's None for object references and lock holders
None == 0

VARIABLES
    retries,       \* _MAX_NETWORK_ERROR_RETRIES (module constant read from env)
    pool_session,  \* BrowserSessionPool._session (None or a session id)
    create_lock,   \* holder of BrowserSessionPool._create_lock (None = free)
    constructed,   \* number of BrowserSession objects constructed so far
    session_lock,  \* session id -> holder of BrowserSession._lock
    pc,            \* thread -> position in pool.ask / Session.ask
    nargs,         \* thread -> number of arguments it passes to Session.ask
    session,       \* thread -> local `session` of pool.ask
    attempts,      \* thread -> local `attempts` of Session.ask
    chunks,        \* thread -> local `chunks` of Session.ask (may be unbound)
    result,        \* thread -> what its call returned or raised
    log,           \* thread -> outcome of each attempt of its Session.ask call
    det_pc,        \* position of the one send_message call followed in detail
    now,           \* time.monotonic(), in tenths of a second
    prev_count,    \* ChatGPTWebAutomator._prev_count
    last_snapshot, \* local of _wait_stream_finished
    stable_since,  \* local of _wait_stream_finished
    text_since,    \* when the text now in last_snapshot was first sampled
    tick,          \* what the page showed on the latest tick, the outcome, and
                   \* when a tick last saw a reply in progress
    sleep_for,     \* the argument of the time.sleep the loop is about to make
    sm_result,     \* what send_message returned
    cls_pc,        \* position of the one detect_error call followed alone
    cls_chunks,    \* its argument
    cls_result,    \* its return value
    conversation,  \* session id -> state of the chat its driver shows
    driver_quits,  \* session id -> number of driver.quit() calls made
    bk_pc,         \* position of the one wait_for_completion call followed
    bk_conv,       \* its conv_id
    bk_timeout,    \* its timeout_seconds
    bk_now,        \* time.monotonic() of that call, in seconds
    bk_deadline,   \* its local `deadline`
    bk_fetched,    \* what the latest fetch returned or raised
    bk_result,     \* what wait_for_completion returned or raised
    api_pc,        \* position of the one _handle_completions call followed
    api_request,   \* the JSON body of the request, as it was received
    api_payload,   \* its local `payload`
    api_mode,      \* SYSTEM_PROMPT_MODE_DEFAULT (module constant from env)
    api_prompt,    \* its local `prompt_string`
    api_sent,      \* the arguments it gave to browser_pool.ask_async, and
                   \* the answer it got (local `answer_chunks`)
    api_response,  \* the JSONResponse it returned
    cmp_pc,        \* position of the two polling loops run side by side
    cmp_now,       \* time.monotonic() of both, in tenths of a second
    cmp_auto,      \* locals of _wait_stream_finished of web_automator.py
    cmp_main       \* locals of _wait_stream_finished of main.py

poolvars == <<retries, pool_session, create_lock, constructed, session_lock,
              pc, nargs, session, attempts, chunks, result, log>>

detvars == <<det_pc, now, prev_count, last_snapshot, stable_since,
             text_since, tick, sleep_for, sm_result>>

clsvars == <<cls_pc, cls_chunks, cls_result>>

drivervars == <<conversation, driver_quits>>

bkvars == <<bk_pc, bk_conv, bk_timeout, bk_now, bk_deadline, bk_fetched,
            bk_result>>

apivars == <<api_pc, api_request, api_payload, api_mode, api_prompt,
             api_sent, api_response>>

cmpvars == <<cmp_pc, cmp_now, cmp_auto, cmp_main>>

vars == <<poolvars, drivervars, detvars, clsvars, bkvars, apivars, cmpvars>>

poolvars_but_pc == <<retries, pool_session, create_lock, constructed,
                     session_lock, nargs, session, attempts, chunks, result,
                     log>>

\* what the steps of one part of the program leave alone
otherparts == <<detvars, clsvars, bkvars, apivars, cmpvars>>

nonpoolvars == <<drivervars, otherparts>>

nondetvars == <<poolvars, drivervars, clsvars, bkvars, apivars, cmpvars>>

nonclsvars == <<poolvars, drivervars, detvars, bkvars, apivars, cmpvars>>

nonbkvars == <<poolvars, drivervars, detvars, clsvars, apivars, cmpvars>>

nonapivars == <<poolvars, drivervars, detvars, clsvars, bkvars, cmpvars>>

noncmpvars == <<poolvars, drivervars, detvars, clsvars, bkvars, apivars>>

\* a local variable that has not been assigned yet
Unbound == [bound |-> FALSE, val |-> <<>>]

Bound(v) == [bound |-> TRUE, val |-> v]

Pending == [kind |-> "pending", exc |-> "", where |-> "", value |-> <<>>,
            browser_id |-> None]

Returned(v, id) == [kind |-> "return", exc |-> "", where |-> "", value |-> v,
                    browser_id |-> id]

Raised(e, w) == [kind |-> "raise", exc |-> e, where |-> w, value |-> <<>>,
                 browser_id |-> None]

\* no tick of the completion detector has run
NoTick == [err |-> FALSE, busy |-> FALSE, exc |-> "", outcome |-> "none",
           joined |-> <<>>, disturbed_at |-> -1]

\* a fresh pool and threads that have not called yet
PoolFresh ==
    /\ pool_session = None
    /\ create_lock = None
    /\ constructed = 0
    /\ session_lock = [s \in SessionIds |-> None]
    /\ pc = [t \in Threads |-> "idle"]
    /\ nargs = [t \in Threads |-> 0]
    /\ session = [t \in Threads |-> None]
    /\ attempts = [t \in Threads |-> 0]
    /\ chunks = [t \in Threads |-> Unbound]
    /\ result = [t \in Threads |-> Pending]
    /\ log = [t \in Threads |-> <<>>]
    /\ conversation = [s \in SessionIds |-> "none"]
    /\ driver_quits = [s \in SessionIds |-> 0]

\* the parts of the program a specification does not follow stay put
PoolIdle == retries = 0 /\ PoolFresh

\* locals of _wait_stream_finished before its first tick
DetFresh ==
    /\ now = 0
    /\ last_snapshot = <<>>
    /\ stable_since = 0
    /\ text_since = 0
    /\ tick = NoTick
    /\ sleep_for = 0
    /\ sm_result = <<>>

DetIdle == det_pc = "off" /\ prev_count = 0 /\ DetFresh

ClsIdle == cls_pc = "off" /\ cls_chunks = <<>> /\ cls_result = "none"

\* no fetch has been made
NoFetch == [exc |-> "", has_mapping |-> FALSE, mapping |-> <<>>,
            failed_before |-> 0]

\* the message of an exception that carries no structured message
NoMessage == [timeout_seconds |-> 0, conv_id |-> ""]

BkPending == [kind |-> "pending", text |-> <<>>, exc |-> "",
              message |-> NoMessage]

BkIdle ==
    /\ bk_pc = "off"
    /\ bk_conv = ""
    /\ bk_timeout = 0
    /\ bk_now = 0
    /\ bk_deadline = 0
    /\ bk_fetched = NoFetch
    /\ bk_result = BkPending

\* a key that a dict does not have
Absent == "<absent>"

\* no JSONResponse has been made
NoResponse == [status_code |-> 0, message |-> "", exc |-> "",
               finish_reason |-> "", content |-> <<>>]

\* browser_pool.ask_async has not been called
NotSent == [sent |-> FALSE, prompt |-> <<>>, model |-> Absent,
            answer |-> <<>>]

\* a dict without any of the keys the handler reads
NoPayload == [stream |-> Absent, temperature |-> Absent, model |-> Absent,
              messages |-> <<>>]

\* locals of _handle_completions before request.json()
ApiFresh ==
    /\ api_request = NoPayload
    /\ api_payload = NoPayload
    /\ api_prompt = <<>>
    /\ api_sent = NotSent
    /\ api_response = NoResponse

ApiIdle == api_pc = "off" /\ api_mode = "delete" /\ ApiFresh

\* locals of a polling loop before its first iteration
LoopFresh == [last_snapshot |-> <<>>, stable_since |-> 0,
              outcome |-> "none", sleep_for |-> 0]

CmpIdle ==
    /\ cmp_pc = "off"
    /\ cmp_now = 0
    /\ cmp_auto = LoopFresh
    /\ cmp_main = LoopFresh

OthersIdle == BkIdle /\ ApiIdle /\ CmpIdle

Init ==
    /\ retries \in 0..MaxRetries
    /\ PoolFresh
    /\ DetIdle
    /\ ClsIdle
    /\ OthersIdle

(***************************************************************************)
(* orchestrator/browser_pool.py                                            *)
(***************************************************************************)

\* A thread calls BrowserSessionPool.ask(prompt, model, timeout_seconds),
\* which will pass all three on to Session.ask.
CallPoolAsk(t) ==
    /\ pc[t] = "idle"
    /\ nargs' = [nargs EXCEPT ![t] = 3]
    /\ pc' = [pc EXCEPT ![t] = "ensure_check"]
    /\ UNCHANGED <<retries, pool_session, create_lock, constructed,
                   session_lock, session, attempts, chunks, result, log>>
    /\ UNCHANGED nonpoolvars

\* A thread obtains the pool's session and calls its public
\* ask(prompt, model) itself.
CallSessionAsk(t) ==
    /\ pc[t] = "idle"
    /\ nargs' = [nargs EXCEPT ![t] = 2]
    /\ pc' = [pc EXCEPT ![t] = "ensure_check"]
    /\ UNCHANGED <<retries, pool_session, create_lock, constructed,
                   session_lock, session, attempts, chunks, result, log>>
    /\ UNCHANGED nonpoolvars

\* _ensure_session, line 32: the unsynchronised check
EnsureCheck(t) ==
    /\ pc[t] = "ensure_check"
    /\ pc' = [pc EXCEPT ![t] = IF pool_session = None THEN "ensure_lock"
                                 ELSE "ensure_return"]
    /\ UNCHANGED <<retries, pool_session, create_lock, constructed,
                   session_lock, nargs, session, attempts, chunks, result, log>>
    /\ UNCHANGED nonpoolvars

\* whether `with self._create_lock` may be entered by a thread
CreateLockFree == create_lock = None

\* _ensure_session, line 33: with self._create_lock (blocks while held)
EnsureLock(t) ==
    /\ pc[t] = "ensure_lock"
    /\ CreateLockFree
    /\ create_lock' = t
    /\ pc' = [pc EXCEPT ![t] = "ensure_recheck"]
    /\ UNCHANGED <<retries, pool_session, constructed, session_lock, nargs,
                   session, attempts, chunks, result, log>>
    /\ UNCHANGED nonpoolvars

\* mutant: the check under the lock is left out
MustConstructUnchecked == TRUE

\* line 34: the check repeated under the lock
MustConstruct == pool_session = None

\* _ensure_session, line 34; leaving the with block releases the lock
EnsureRecheck(t) ==
    /\ pc[t] = "ensure_recheck"
    /\ IF MustConstruct
       THEN /\ pc' = [pc EXCEPT ![t] = "construct"]
            /\ UNCHANGED create_lock
       ELSE /\ pc' = [pc EXCEPT ![t] = "ensure_return"]
            /\ create_lock' = None
    /\ UNCHANGED <<retries, pool_session, constructed, session_lock, nargs,
                   session, attempts, chunks, result, log>>
    /\ UNCHANGED nonpoolvars

\* line 35: BrowserSession() succeeds and is stored in self._session
ConstructOk(t) ==
    /\ pc[t] = "construct"
    /\ constructed' = constructed + 1
    /\ pool_session' = constructed + 1
    /\ create_lock' = None
    /\ pc' = [pc EXCEPT ![t] = "ensure_return"]
    /\ UNCHANGED <<retries, session_lock, nargs, session, attempts, chunks,
                   result, log>>
    /\ UNCHANGED nonpoolvars

\* variant: the creation lock stays held when the constructor raises
ConstructFailsHoldingLock(t) ==
    /\ pc[t] = "construct"
    /\ result' = [result EXCEPT ![t] = Raised("WebDriverException",
                                             "_ensure_session")]
    /\ pc' = [pc EXCEPT ![t] = "raised"]
    /\ UNCHANGED <<retries, pool_session, create_lock, constructed,
                   session_lock, nargs, session, attempts, chunks, log>>
    /\ UNCHANGED nonpoolvars

\* line 35: BrowserSession() raises (Chrome does not start, the page does not
\* load); the with block releases the lock and the exception leaves pool.ask
ConstructFails(t) ==
    /\ pc[t] = "construct"
    /\ create_lock' = None
    /\ result' = [result EXCEPT ![t] = Raised("WebDriverException",
                                             "_ensure_session")]
    /\ pc' = [pc EXCEPT ![t] = "raised"]
    /\ UNCHANGED <<retries, pool_session, constructed, session_lock, nargs,
                   session, attempts, chunks, log>>
    /\ UNCHANGED nonpoolvars

\* line 36: return self._session; pool.ask line 44 binds it to `session`
EnsureReturn(t) ==
    /\ pc[t] = "ensure_return"
    /\ session' = [session EXCEPT ![t] = pool_session]
    /\ pc' = [pc EXCEPT ![t] = "delegate"]
    /\ UNCHANGED <<retries, pool_session, create_lock, constructed,
                   session_lock, nargs, attempts, chunks, result, log>>
    /\ UNCHANGED nonpoolvars

(***************************************************************************)
(* orchestrator/browser_session.py                                         *)
(***************************************************************************)

\* def ask(self, prompt, model=None): the positional arguments (besides
\* self) the method accepts
SessionAskAccepts(n) == n >= 1 /\ n <= 2

\* pool.ask line 45 (or the direct caller): the call of Session.ask binds the
\* arguments; Python raises TypeError before the body runs when there are
\* too many.  On entry, line 49: attempts = 0.
Delegate(t) ==
    /\ pc[t] = "delegate"
    /\ IF SessionAskAccepts(nargs[t])
       THEN /\ attempts' = [attempts EXCEPT ![t] = 0]
            /\ pc' = [pc EXCEPT ![t] = "acquire"]
            /\ UNCHANGED result
       ELSE /\ result' = [result EXCEPT ![t] = Raised("TypeError", "pool.ask")]
            /\ pc' = [pc EXCEPT ![t] = "raised"]
            /\ UNCHANGED attempts
    /\ UNCHANGED <<retries, pool_session, create_lock, constructed,
                   session_lock, nargs, session, chunks, log>>
    /\ UNCHANGED nonpoolvars

\* mutant: the session lock does not exclude
SessionLockAlwaysFree(s) == TRUE

\* whether `with self._lock` of session s may be entered
SessionLockFree(s) == session_lock[s] = None

\* the driver of session s has not been told to quit: its calls can succeed
DriverLive(s) == driver_quits[s] = 0

\* line 50: with self._lock (blocks while another thread holds it)
Acquire(t) ==
    /\ pc[t] = "acquire"
    /\ SessionLockFree(session[t])
    /\ session_lock' = [session_lock EXCEPT ![session[t]] = t]
    /\ pc' = [pc EXCEPT ![t] = "open"]
    /\ UNCHANGED <<retries, pool_session, create_lock, constructed, nargs,
                   session, attempts, chunks, result, log>>
    /\ UNCHANGED nonpoolvars

\* lines 51-56: the loop body starts; self._client.open_new_chat(model)
\* returns.  (Line 52 stamps last_used_at, which no code reads.)
OpenNewChat(t) ==
    /\ pc[t] = "open"
    /\ DriverLive(session[t])
    /\ conversation' = [conversation EXCEPT ![session[t]] = "fresh"]
    /\ pc' = [pc EXCEPT ![t] = "send"]
    /\ UNCHANGED <<retries, pool_session, create_lock, constructed,
                   session_lock, nargs, session, attempts, chunks, result, log>>
    /\ UNCHANGED <<driver_quits, otherparts>>

\* line 56: open_new_chat raises (page load or prompt box wait fails)
OpenNewChatRaises(t) ==
    /\ pc[t] = "open"
    /\ conversation' = [conversation EXCEPT ![session[t]] = "unknown"]
    /\ log' = [log EXCEPT ![t] = Append(@, "exception")]
    /\ pc' = [pc EXCEPT ![t] = "except"]
    /\ UNCHANGED <<retries, pool_session, create_lock, constructed,
                   session_lock, nargs, session, attempts, chunks, result>>
    /\ UNCHANGED <<driver_quits, otherparts>>

\* line 57: chunks = self._client.send_message(prompt) returns a reply
SendMessage(t) ==
    /\ pc[t] = "send"
    /\ DriverLive(session[t])
    /\ \E r \in Replies : chunks' = [chunks EXCEPT ![t] = Bound(r)]
    /\ conversation' = [conversation EXCEPT ![session[t]] = "used"]
    /\ pc' = [pc EXCEPT ![t] = "classify"]
    /\ UNCHANGED <<retries, pool_session, create_lock, constructed,
                   session_lock, nargs, session, attempts, result, log>>
    /\ UNCHANGED <<driver_quits, otherparts>>

\* line 57: send_message raises; chunks keeps what it had (nothing on the
\* first attempt, the previous attempt's reply on a retry)
SendMessageRaises(t) ==
    /\ pc[t] = "send"
    /\ conversation' = [conversation EXCEPT ![session[t]] = "used"]
    /\ log' = [log EXCEPT ![t] = Append(@, "exception")]
    /\ pc' = [pc EXCEPT ![t] = "except"]
    /\ UNCHANGED <<retries, pool_session, create_lock, constructed,
                   session_lock, nargs, session, attempts, chunks, result>>
    /\ UNCHANGED <<driver_quits, otherparts>>

\* the `return` of Session.ask: leaving the with block releases the lock;
\* pool.ask line 46 wraps the value with the session id
Return(t, v) ==
    /\ session_lock' = [session_lock EXCEPT ![session[t]] = None]
    /\ result' = [result EXCEPT ![t] =
                    Returned(v, IF nargs[t] = 3 THEN session[t] ELSE None)]
    /\ pc' = [pc EXCEPT ![t] = "done"]

\* variant: an exception that leaves Session.ask leaves the lock held
EscapeHoldingLock(t, e) ==
    /\ UNCHANGED session_lock
    /\ result' = [result EXCEPT ![t] = Raised(e, "Session.ask")]
    /\ pc' = [pc EXCEPT ![t] = "raised"]

\* an exception leaves Session.ask: the with block releases the lock
Escape(t, e) ==
    /\ session_lock' = [session_lock EXCEPT ![session[t]] = None]
    /\ result' = [result EXCEPT ![t] = Raised(e, "Session.ask")]
    /\ pc' = [pc EXCEPT ![t] = "raised"]

\* [f"error: {msg}"]
ErrorReply(msg) == <<ErrorPrefix \o msg>>

\* chunks[-1] if chunks else dflt
LastChunkOr(c, dflt) == IF Truthy(c) THEN c[Len(c)] ELSE dflt

\* lines 58-65: except Exception.  Reading `chunks` when no send_message has
\* returned yet raises UnboundLocalError inside the handler.
ExceptHandler(t) ==
    /\ pc[t] = "except"
    /\ IF chunks[t].bound
       THEN Return(t, ErrorReply(LastChunkOr(chunks[t].val, TxtNetworkError)))
       ELSE Escape(t, "UnboundLocalError")
    /\ UNCHANGED <<retries, pool_session, create_lock, constructed, nargs,
                   session, attempts, chunks, log>>
    /\ UNCHANGED nonpoolvars

\* mutant: GENERIC is not treated as unrecoverable
UnrecoverableLengthOnly(e) == e = "length"

\* line 70: error_type in {ErrorType.LENGTH, ErrorType.GENERIC}
Unrecoverable(e) == e \in {"length", "generic"}

\* mutant: off by one in the retry bound
MayRetryOffByOne(max, n) == max # 0 /\ n <= max

\* line 85: _MAX_NETWORK_ERROR_RETRIES and attempts < _MAX_NETWORK_ERROR_RETRIES
MayRetry(max, n) == max # 0 /\ n < max

\* variant: the name of the error type is never used
ErrorTextLastOnly(c, e) == LastChunkOr(c, <<>>)

\* variant: a retry types the prompt into the conversation it has
RetryFromSend == "send"

\* line 87: continue, to the top of the loop body (line 52)
RetryFrom == "open"

\* last_chunk or error_type.name.lower()
ErrorText(c, e) ==
    LET last_chunk == LastChunkOr(c, <<>>)
    IN  IF Truthy(last_chunk) THEN last_chunk ELSE NameLower(e)

\* mutant: only the last fragment is returned
SuccessValueLastOnly(c) == <<c[Len(c)]>>

\* line 91: return chunks
SuccessValue(c) == c

\* variant: a retry leaves the with block and enters it again
LockFreedOnRetry(t) == [session_lock EXCEPT ![session[t]] = None]

\* lines 85-87: `continue` stays inside `with self._lock`
LockOnRetry(t) == session_lock

\* lines 67-91: classify the reply, then return or retry
Classify(t) ==
    /\ pc[t] = "classify"
    /\ LET c == chunks[t].val
           error_type == detect_error(c)
       IN  /\ log' = [log EXCEPT ![t] = Append(@, error_type)]
           /\ IF Unrecoverable(error_type)
              THEN /\ Return(t, ErrorReply(ErrorText(c, error_type)))
                   /\ UNCHANGED attempts
              ELSE IF error_type = "network"
              THEN IF MayRetry(retries, attempts[t])
                   THEN /\ attempts' = [attempts EXCEPT ![t] = @ + 1]
                        /\ pc' = [pc EXCEPT ![t] = RetryFrom]
                        /\ session_lock' = LockOnRetry(t)
                        /\ UNCHANGED result
                   ELSE /\ Return(t, ErrorReply(ErrorText(c, error_type)))
                        /\ UNCHANGED attempts
              ELSE /\ Return(t, SuccessValue(c))
                   /\ UNCHANGED attempts
    /\ UNCHANGED <<retries, pool_session, create_lock, constructed, nargs,
                   session, chunks>>
    /\ UNCHANGED nonpoolvars

Next ==
    \E t \in Threads :
        \/ CallPoolAsk(t)
        \/ CallSessionAsk(t)
        \/ EnsureCheck(t)
        \/ EnsureLock(t)
        \/ EnsureRecheck(t)
        \/ ConstructOk(t)
        \/ ConstructFails(t)
        \/ EnsureReturn(t)
        \/ Delegate(t)
        \/ Acquire(t)
        \/ OpenNewChat(t)
        \/ OpenNewChatRaises(t)
        \/ SendMessage(t)
        \/ SendMessageRaises(t)
        \/ ExceptHandler(t)
        \/ Classify(t)

Spec == Init /\ [][Next]_vars

(***************************************************************************)
(* orchestrator/browser_session.py: shutdown                               *)
(*                                                                         *)
(* Threads that hold the pool's session call its shutdown() as well as its *)
(* ask(); the driver's quit() takes time, so it is entered and left in two *)
(* steps.                                                                  *)
(***************************************************************************)

\* number of shutdown() calls explored
MaxShutdowns == 2

\* a thread, before or after its ask, calls shutdown() of the pool's session
ShutdownCall(t) ==
    /\ pc[t] \in {"idle", "done", "raised"}
    /\ pool_session # None
    /\ driver_quits[pool_session]
          + Cardinality({u \in Threads : pc[u] = "shutdown"}) < MaxShutdowns
    /\ session' = [session EXCEPT ![t] = pool_session]
    /\ pc' = [pc EXCEPT ![t] = "shutdown"]
    /\ UNCHANGED <<retries, pool_session, create_lock, constructed,
                   session_lock, nargs, attempts, chunks, result, log>>
    /\ UNCHANGED nonpoolvars

\* line 95 and web_automator.py line 117: self._client.quit() enters
\* self.driver.quit(); no lock is taken and no flag is read on the way
QuitBegin(t) ==
    /\ pc[t] = "shutdown"
    /\ driver_quits' = [driver_quits EXCEPT ![session[t]] = @ + 1]
    /\ conversation' = [conversation EXCEPT ![session[t]] = "closed"]
    /\ pc' = [pc EXCEPT ![t] = "quitting"]
    /\ UNCHANGED poolvars_but_pc
    /\ UNCHANGED otherparts

\* web_automator.py lines 117-122: driver.quit() is left, the temporary
\* profile is wiped, shutdown returns
QuitEnd(t) ==
    /\ pc[t] = "quitting"
    /\ pc' = [pc EXCEPT ![t] = "shut"]
    /\ UNCHANGED poolvars_but_pc
    /\ UNCHANGED nonpoolvars

LifeInit == PoolIdle /\ DetIdle /\ ClsIdle /\ OthersIdle

LifeNext ==
    \/ Next
    \/ \E t \in Threads :
          \/ ShutdownCall(t)
          \/ QuitBegin(t)
          \/ QuitEnd(t)

LifeSpec == LifeInit /\ [][LifeNext]_vars

(***************************************************************************)
(* automator/web_automator.py: send_message and _wait_stream_finished      *)
(*                                                                         *)
(* One send_message call is followed step by step.  Every read of the page *)
(* (error bubbles, stop button, assistant blocks) is an input of the step  *)
(* that makes it.  Time is counted in tenths of a second and passes in     *)
(* time.sleep.                                                             *)
(***************************************************************************)

\* ClientConfig.poll_interval = 0.20 s
PollInterval == 2

\* ClientConfig.stream_settle = 0.8 s
StreamSettle == 8

\* the clock is followed up to this time
MaxTime == 14

\* how much later than asked a time.sleep can end
MaxLag == 8

\* the timeout_seconds the caller of ask asked for
AskTimeout == 10

\* largest number of assistant blocks already on the page at open_new_chat
MaxPrevCount == 1

\* the trailing cursor glyph of a reply that is still streaming
Cursor == "▍"

TxtStreaming ==
    <<"H", "e", "l", "▍">>

TxtBlank ==
    <<" ">>

\* What _assistant_blocks() can find: the text of each block on the page.
Pages ==
    { <<>>,
      <<TxtBlank>>,
      <<TxtStreaming>>,
      <<TxtHello>>,
      <<TxtHello, TxtBlank>>,
      <<TxtHello, TxtStreaming>>,
      <<TxtHello, TxtHello>> }

\* What _error_blocks() can find: the text of each error bubble.
ErrorPages == { <<>>, <<TxtNetBubble>> }

\* blocks[start_index:]
Drop(blocks, n) == SubSeq(blocks, n + 1, Len(blocks))

\* "\n".join(blk.text for blk in blocks)
RECURSIVE Join(_)
Join(blocks) ==
    IF blocks = <<>> THEN <<>>
    ELSE IF Len(blocks) = 1 THEN blocks[1]
    ELSE blocks[1] \o <<"\n">> \o Join(Tail(blocks))

\* [blk.text.strip() for blk in blocks]
StripAll(blocks) == [i \in 1..Len(blocks) |-> Strip(blocks[i])]

\* joined.endswith("▍")
EndsWith(s, c) == s # <<>> /\ s[Len(s)] = c

\* mutant: the stop button is not part of the reset condition
NeedsResetIgnoringBusy(busy, has_cursor, joined, last) ==
    has_cursor \/ joined # last

\* line 217: streaming_busy or has_cursor or joined != last_snapshot
NeedsReset(busy, has_cursor, joined, last) ==
    busy \/ has_cursor \/ joined # last

\* mutant: the settle time must be exceeded, not reached
SettledStrict(t, since) == t - since > StreamSettle

\* line 224: time.monotonic() - stable_since >= self.cfg.stream_settle
Settled(t, since) == t - since >= StreamSettle

\* The state at the call of send_message, after open_new_chat has recorded
\* how many assistant blocks the page holds.
DetInit ==
    /\ PoolIdle
    /\ det_pc = "submit"
    /\ prev_count \in 0..MaxPrevCount
    /\ DetFresh
    /\ ClsIdle
    /\ OthersIdle

\* lines 90-92: the prompt box is found, the prompt typed, Send clicked
Submit ==
    /\ det_pc = "submit"
    /\ det_pc' = "wait_first"
    /\ UNCHANGED <<now, prev_count, last_snapshot, stable_since, text_since,
                   tick, sleep_for, sm_result>>
    /\ UNCHANGED nondetvars

\* lines 90-92: _wait_visible or _click times out, or the driver fails
SubmitRaises ==
    /\ det_pc = "submit"
    /\ det_pc' = "raised"
    /\ UNCHANGED <<now, prev_count, last_snapshot, stable_since, text_since,
                   tick, sleep_for, sm_result>>
    /\ UNCHANGED nondetvars

\* lines 95-99: wait.until finds a new assistant block or an error bubble
WaitFirst ==
    /\ det_pc = "wait_first"
    /\ \E page \in Pages, err \in ErrorPages :
          Len(page) > prev_count \/ Truthy(err)
    /\ det_pc' = "check_error"
    /\ UNCHANGED <<now, prev_count, last_snapshot, stable_since, text_since,
                   tick, sleep_for, sm_result>>
    /\ UNCHANGED nondetvars

\* lines 95-99: neither appears within explicit_timeout: TimeoutException
WaitFirstRaises ==
    /\ det_pc = "wait_first"
    /\ det_pc' = "raised"
    /\ UNCHANGED <<now, prev_count, last_snapshot, stable_since, text_since,
                   tick, sleep_for, sm_result>>
    /\ UNCHANGED nondetvars

\* lines 102-105: an error bubble is present: return its text at once
ReturnErrorBubble ==
    /\ det_pc = "check_error"
    /\ \E err \in ErrorPages :
          /\ Truthy(err)
          /\ sm_result' = StripAll(err)
    /\ det_pc' = "returned"
    /\ UNCHANGED <<now, prev_count, last_snapshot, stable_since, text_since,
                   tick, sleep_for>>
    /\ UNCHANGED nondetvars

\* lines 102, 107, 188-189: no error bubble: _wait_stream_finished starts
EnterWaitStream ==
    /\ det_pc = "check_error"
    /\ det_pc' = "poll"
    /\ last_snapshot' = <<>>
    /\ stable_since' = now
    /\ text_since' = now
    /\ UNCHANGED <<now, prev_count, tick, sleep_for, sm_result>>
    /\ UNCHANGED nondetvars

\* What reading the text of the assistant blocks can raise: the element
\* went stale in a re-render, or the driver failed.
ReadExceptions == {"StaleElementReferenceException", "WebDriverException"}

\* mutant: the except clause catches nothing
CatchesNothing(exc) == FALSE

\* line 203: except StaleElementReferenceException
CatchesRead(exc) == exc = "StaleElementReferenceException"

\* variant: a failed read restarts the stability window
WindowRestarted(t, since) == t

\* lines 203-205: the except clause assigns nothing: stable_since is kept
WindowAfterStale(t, since) == since

\* mutant: the error bubble does not end the loop
ErrorVisibleIgnored(err) == FALSE

\* line 193: if self._error_blocks()
ErrorVisible(err) == Truthy(err)

\* mutant: an empty snapshot is treated like any other
IsEmptySnapshotNever(joined) == FALSE

\* line 208: not joined.strip()
IsEmptySnapshot(joined) == ~Truthy(Strip(joined))

\* lines 191-227: one iteration of the polling loop, up to its break, its
\* raise or its time.sleep.  The page shows err (error bubbles), busy (stop
\* button) and page (assistant blocks); reading the blocks' text raises exc
\* unless exc is "".
WaitStreamTick ==
    /\ det_pc = "poll"
    /\ \E err \in ErrorPages, busy \in BOOLEAN, page \in Pages,
          exc \in ReadExceptions \cup {""} :
          LET joined == Join(Drop(page, prev_count))
              has_cursor == EndsWith(joined, Cursor)
              \* the read is reached only when no error bubble is visible
              raised == IF Truthy(err) THEN "" ELSE exc
              \* the snapshot was sampled: no error bubble, no failed read
              sampled == ~Truthy(err) /\ exc = ""
              \* what the tick saw of a reply in progress: the stop button
              \* (queried before the read), or in the sampled snapshot a
              \* cursor, no text, or another text than the last one
              disturbed == \/ ~Truthy(err) /\ busy
                           \/ /\ sampled
                              /\ \/ has_cursor
                                 \/ ~Truthy(Strip(joined))
                                 \/ joined # last_snapshot
              seen(o) == [err |-> Truthy(err), busy |-> busy, exc |-> raised,
                          outcome |-> o,
                          joined |-> IF sampled THEN joined ELSE <<>>,
                          disturbed_at |-> IF disturbed THEN now
                                           ELSE tick.disturbed_at]
          IN  IF ErrorVisible(err)
              THEN \* lines 192-194: an error bubble ends the loop
                   /\ tick' = seen("error")
                   /\ det_pc' = "read"
                   /\ UNCHANGED <<last_snapshot, stable_since, text_since,
                                  sleep_for>>
              ELSE IF exc # "" /\ CatchesRead(exc)
              THEN \* lines 203-205: the stale read is swallowed
                   /\ tick' = seen("stale")
                   /\ sleep_for' = PollInterval \div 2
                   /\ det_pc' = "sleep"
                   /\ stable_since' = WindowAfterStale(now, stable_since)
                   /\ UNCHANGED <<last_snapshot, text_since>>
              ELSE IF exc # ""
              THEN \* any other exception leaves the loop and send_message
                   /\ tick' = seen("raise")
                   /\ det_pc' = "raised"
                   /\ UNCHANGED <<last_snapshot, stable_since, text_since,
                                  sleep_for>>
              ELSE IF IsEmptySnapshot(joined)
              THEN \* lines 208-212: empty snapshot
                   /\ tick' = seen("empty")
                   /\ last_snapshot' = joined
                   /\ stable_since' = now
                   /\ text_since' = IF joined # last_snapshot THEN now
                                    ELSE text_since
                   /\ sleep_for' = PollInterval
                   /\ det_pc' = "sleep"
              ELSE IF NeedsReset(busy, has_cursor, joined, last_snapshot)
              THEN \* lines 217-221: still streaming, or the text changed
                   /\ tick' = seen("reset")
                   /\ last_snapshot' = joined
                   /\ stable_since' = now
                   /\ text_since' = IF joined # last_snapshot THEN now
                                    ELSE text_since
                   /\ sleep_for' = PollInterval
                   /\ det_pc' = "sleep"
              ELSE IF Settled(now, stable_since)
              THEN \* lines 224-225: stable for long enough
                   /\ tick' = seen("settled")
                   /\ det_pc' = "read"
                   /\ UNCHANGED <<last_snapshot, stable_since, text_since,
                                  sleep_for>>
              ELSE \* line 227
                   /\ tick' = seen("waiting")
                   /\ sleep_for' = PollInterval
                   /\ det_pc' = "sleep"
                   /\ UNCHANGED <<last_snapshot, stable_since, text_since>>
    /\ UNCHANGED <<now, prev_count, sm_result>>
    /\ UNCHANGED nondetvars

\* time.sleep(d) returns after d or later; the page queries of the next
\* iteration take time too
Sleep(d) ==
    \E lag \in 0..MaxLag :
        /\ now + d + lag <= MaxTime
        /\ now' = now + d + lag

\* lines 205, 212, 221, 227: time.sleep, then the next iteration
StreamSleep ==
    /\ det_pc = "sleep"
    /\ Sleep(sleep_for)
    /\ det_pc' = "poll"
    /\ UNCHANGED <<prev_count, last_snapshot, stable_since, text_since, tick,
                   sleep_for, sm_result>>
    /\ UNCHANGED nondetvars

\* lines 109-112: the new blocks are read and returned
ReadBlocks ==
    /\ det_pc = "read"
    /\ \E page \in Pages :
          /\ sm_result' = StripAll(Drop(page, prev_count))
          /\ prev_count' = Len(page)
    /\ det_pc' = "returned"
    /\ UNCHANGED <<now, last_snapshot, stable_since, text_since, tick,
                   sleep_for>>
    /\ UNCHANGED nondetvars

DetNext ==
    \/ Submit
    \/ SubmitRaises
    \/ WaitFirst
    \/ WaitFirstRaises
    \/ ReturnErrorBubble
    \/ EnterWaitStream
    \/ WaitStreamTick
    \/ StreamSleep
    \/ ReadBlocks

DetSpec == DetInit /\ [][DetNext]_vars

(***************************************************************************)
(* main.py: _wait_stream_finished, side by side with web_automator.py's    *)
(*                                                                         *)
(* Both loops are given the same clock and, on every iteration, the same   *)
(* read of the assistant blocks; the page shows no stop button and no      *)
(* error bubble.  An iteration is a function from the loop's locals and    *)
(* what it reads to the new locals, the outcome and the sleep it asks for. *)
(***************************************************************************)

Loop(last, since, outcome, sleep) ==
    [last_snapshot |-> last, stable_since |-> since, outcome |-> outcome,
     sleep_for |-> sleep]

\* web_automator.py lines 191-227: one iteration
AutomatorTick(loc, err, busy, exc, joined, t) ==
    LET has_cursor == EndsWith(joined, Cursor)
        last == loc.last_snapshot
        since == loc.stable_since
    IN  IF ErrorVisible(err) THEN Loop(last, since, "error", 0)
        ELSE IF exc # "" /\ CatchesRead(exc)
        THEN Loop(last, WindowAfterStale(t, since), "stale",
                  PollInterval \div 2)
        ELSE IF exc # "" THEN Loop(last, since, "raise", 0)
        ELSE IF IsEmptySnapshot(joined)
        THEN Loop(joined, t, "empty", PollInterval)
        ELSE IF NeedsReset(busy, has_cursor, joined, last)
        THEN Loop(joined, t, "reset", PollInterval)
        ELSE IF Settled(t, since) THEN Loop(last, since, "settled", 0)
        ELSE Loop(last, since, "waiting", PollInterval)

\* variant: main.py does not look at the cursor
MainUnchangedIgnoringCursor(joined, last, has_cursor) == joined = last

\* main.py line 271: joined == last_snapshot and not has_cursor
MainUnchanged(joined, last, has_cursor) == joined = last /\ ~has_cursor

\* main.py lines 257-278: one iteration
MainTick(loc, exc, joined, t) ==
    LET has_cursor == EndsWith(joined, Cursor)
        last == loc.last_snapshot
        since == loc.stable_since
    IN  IF exc = "StaleElementReferenceException"
        THEN Loop(last, since, "stale", PollInterval \div 2)
        ELSE IF exc # "" THEN Loop(last, since, "raise", 0)
        ELSE IF ~Truthy(Strip(joined))
        THEN Loop(joined, t, "empty", PollInterval)
        ELSE IF MainUnchanged(joined, last, has_cursor)
        THEN IF t - since >= StreamSettle
             THEN Loop(last, since, "settled", 0)
             ELSE Loop(last, since, "waiting", PollInterval)
        ELSE Loop(joined, t, "reset", PollInterval)

\* outcomes after which a loop sleeps and iterates again
Sleeping == {"stale", "empty", "reset", "waiting"}

\* both loops are entered at the same time (lines 188-189 and 253-254)
CmpInit ==
    /\ PoolIdle
    /\ DetIdle
    /\ ClsIdle
    /\ BkIdle
    /\ ApiIdle
    /\ cmp_pc = "poll"
    /\ cmp_now = 0
    /\ cmp_auto = LoopFresh
    /\ cmp_main = LoopFresh

\* one iteration of each loop on the same read (start_index 0); the loops
\* go on together while both sleep for the same time
CmpTick ==
    /\ cmp_pc = "poll"
    /\ \E page \in Pages, exc \in ReadExceptions \cup {""} :
          LET joined == Join(Drop(page, 0))
              a == AutomatorTick(cmp_auto, <<>>, FALSE, exc, joined, cmp_now)
              b == MainTick(cmp_main, exc, joined, cmp_now)
          IN  /\ cmp_auto' = a
              /\ cmp_main' = b
              /\ cmp_pc' = IF /\ a.outcome \in Sleeping
                              /\ b.outcome \in Sleeping
                              /\ a.sleep_for = b.sleep_for
                           THEN "sleep" ELSE "done"
    /\ UNCHANGED cmp_now
    /\ UNCHANGED noncmpvars

\* the time.sleep both loops make
CmpSleep ==
    /\ cmp_pc = "sleep"
    /\ \E lag \in 0..MaxLag :
          /\ cmp_now + cmp_auto.sleep_for + lag <= MaxTime
          /\ cmp_now' = cmp_now + cmp_auto.sleep_for + lag
    /\ cmp_pc' = "poll"
    /\ UNCHANGED <<cmp_auto, cmp_main>>
    /\ UNCHANGED noncmpvars

CmpNext == CmpTick \/ CmpSleep

CmpSpec == CmpInit /\ [][CmpNext]_vars


(***************************************************************************)
(* utils/errors.py: detect_error on its own                                *)
(*                                                                         *)
(* One call of detect_error on a list of fragments drawn from ClsTexts.    *)
(***************************************************************************)

\* longest fragment list given to detect_error
ClsMaxLen == 2

Pad(c, n) == [i \in 1..n |-> c]

\* "  NETWORK ERROR!! . "
TxtShouted ==
    <<" ", " ", "N", "E", "T", "W", "O", "R", "K", " ", "E", "R", "R", "O",
      "R", "!", "!", " ", ".", " ">>

\* "What is a network error?"
TxtTopic ==
    <<"W", "h", "a", "t", " ", "i", "s", " ", "a", " ", "n", "e", "t", "w",
      "o", "r", "k", " ", "e", "r", "r", "o", "r", "?">>

\* "message too long to read"
TxtTopicLength ==
    <<"m", "e", "s", "s", "a", "g", "e", " ", "t", "o", "o", " ", "l", "o",
      "n", "g", " ", "t", "o", " ", "r", "e", "a", "d">>

\* "network error" followed by "!" up to _MAX_ERROR_CHARS + 1 characters
TxtOverCeiling ==
    PatNetworkError \o Pad("!", _MAX_ERROR_CHARS + 1 - Len(PatNetworkError))

\* "network error" followed by "!" up to exactly _MAX_ERROR_CHARS characters
TxtAtCeiling ==
    PatNetworkError \o Pad("!", _MAX_ERROR_CHARS - Len(PatNetworkError))

\* "network error" after _MAX_ERROR_CHARS blanks: long before strip() only
TxtIndented == Pad(" ", _MAX_ERROR_CHARS) \o PatNetworkError

ClsTexts ==
    {<<>>, TxtHello, TxtNetBubble, TxtLenBubble, TxtLenBubbleFull,
     PatMessageTooLong, TxtShouted, TxtTopic, TxtTopicLength, TxtOverCeiling, TxtAtCeiling,
     TxtIndented}

Lists(S, n) == UNION {[1..k -> S] : k \in 0..n}

ClsInit ==
    /\ PoolIdle
    /\ DetIdle
    /\ OthersIdle
    /\ cls_pc = "input"
    /\ cls_chunks \in Lists(ClsTexts, ClsMaxLen)
    /\ cls_result = "none"

\* result = detect_error(chunks)
ClsDetect ==
    /\ cls_pc = "input"
    /\ cls_result' = detect_error(cls_chunks)
    /\ cls_pc' = "done"
    /\ UNCHANGED cls_chunks
    /\ UNCHANGED nonclsvars

ClsNext == ClsDetect

ClsSpec == ClsInit /\ [][ClsNext]_vars

(***************************************************************************)
(* utils/chat_backend.py: ChatBackendClient.wait_for_completion            *)
(*                                                                         *)
(* One call is followed poll by poll.  What fetch returns or raises is an  *)
(* input of each poll.  Time is counted in seconds; it passes in fetch and *)
(* in time.sleep.                                                          *)
(***************************************************************************)

\* largest timeout_seconds given to wait_for_completion
BkMaxTimeout == 3

\* longest time one fetch takes
BkMaxFetch == 2

\* poll_interval: float = 1.0
BkPollInterval == 1

ConvIds == {"conv-a", "conv-b"}

_WANTED_ROLE == "assistant"

Roles == {_WANTED_ROLE, "user"}

Statuses == {"finished_successfully", "in_progress"}

\* a message without a "content" key: msg.get("content", {}) is {}
NoContent == [content_type |-> Absent, parts |-> <<>>, text |-> <<>>]

TextContent(parts) == [content_type |-> "text", parts |-> parts, text |-> <<>>]

OutputContent(text) ==
    [content_type |-> "execution_output", parts |-> <<>>, text |-> text]

\* the chain-of-thought message: its "thoughts" are kept in parts here
ThoughtsContent ==
    [content_type |-> "thoughts", parts |-> <<TxtHello>>, text |-> <<>>]

CodeContent == [content_type |-> "code", parts |-> <<>>, text |-> TxtHello]

Contents ==
    {NoContent, ThoughtsContent, CodeContent}
        \cup {TextContent(ps) : ps \in {<<TxtBlank>>, <<TxtHello>>,
                                        <<TxtHello, TxtBlank>>}}
        \cup {OutputContent(x) : x \in {TxtBlank, TxtHello}}

\* a node whose "message" is null
NullNode == [has_message |-> FALSE, role |-> Absent, status |-> Absent,
             content |-> NoContent]

Node(role, status, content) ==
    [has_message |-> TRUE, role |-> role, status |-> status,
     content |-> content]

Nodes ==
    {NullNode}
        \cup {Node(r, s, c) : r \in Roles, s \in Statuses, c \in Contents}

\* the nodes that come before the newest one in the mappings explored
EarlierNodes ==
    {Node("user", "finished_successfully", TextContent(<<TxtHello>>)),
     Node(_WANTED_ROLE, "finished_successfully", TextContent(<<TxtHello>>))}

\* data["mapping"] in insertion order
Mappings ==
    {<<>>} \cup {<<n>> : n \in Nodes}
           \cup {<<e, n>> : e \in EarlierNodes, n \in Nodes}

\* what fetch raises: ValueError for an empty or non-JSON body (lines 124-133),
\* HTTPError from raise_for_status, ConnectionError from the GET
FetchExceptions == {"ValueError", "HTTPError", "ConnectionError"}

Fetched(exc, has_mapping, mapping) ==
    [exc |-> exc, has_mapping |-> has_mapping, mapping |-> mapping,
     failed_before |-> 0]

FetchOutcomes ==
    {Fetched(e, FALSE, <<>>) : e \in FetchExceptions}
        \cup {Fetched("", FALSE, <<>>)}
        \cup {Fetched("", TRUE, m) : m \in Mappings}

\* str(content) of the contents explored ("{}" for a missing content)
PyStr(content) ==
    IF content = NoContent
    THEN <<"{", "}">>
    ELSE <<"{", "'", "c", "o", "n", "t", "e", "n", "t", "_", "t", "y", "p",
           "e", "'", ":", " ", "'", "c", "o", "d", "e", "'", ",", " ", "'",
           "t", "e", "x", "t", "'", ":", " ", "'">>
             \o content.text \o <<"'", "}">>

\* variant: thoughts are read like text
ThoughtsAsText(content) == Strip(Join(content.parts))

\* lines 57-58: if ctype == "thoughts": return ""
ThoughtsText(content) == <<>>

_content_text(msg) ==
    LET content == msg.content
        ctype == content.content_type
    IN  IF ctype = "text" THEN Strip(Join(content.parts))
        ELSE IF ctype = "execution_output" THEN Strip(content.text)
        ELSE IF ctype = "thoughts" THEN ThoughtsText(content)
        ELSE Strip(PyStr(content))

\* variant: the first-inserted node is looked at
OldestNode(mapping) == mapping[1]

\* line 173: next(reversed(data["mapping"].values()))
LatestNode(mapping) == mapping[Len(mapping)]

\* variant: a ValueError of fetch is not caught
CatchesAllButValueError(exc) == exc # "ValueError"

\* line 164: except Exception
CatchesFetch(exc) == TRUE

\* variant: the deadline itself still counts as before the deadline
AtOrBeforeDeadline(t, deadline) == t <= deadline

\* line 161: time.monotonic() < deadline
BeforeDeadline(t, deadline) == t < deadline

\* lines 199-201: the message of the TimeoutError
TimeoutMessage(timeout_seconds, conv_id) ==
    [timeout_seconds |-> timeout_seconds, conv_id |-> conv_id]

BkReturned(text) == [kind |-> "return", text |-> text, exc |-> "",
                     message |-> NoMessage]

BkRaised(exc, message) == [kind |-> "raise", text |-> <<>>, exc |-> exc,
                           message |-> message]

BkInit ==
    /\ PoolIdle
    /\ DetIdle
    /\ ClsIdle
    /\ ApiIdle
    /\ CmpIdle
    /\ bk_pc = "call"
    /\ bk_conv \in ConvIds
    /\ bk_timeout \in 0..BkMaxTimeout
    /\ bk_now = 0
    /\ bk_deadline = 0
    /\ bk_fetched = NoFetch
    /\ bk_result = BkPending

\* line 159: deadline = time.monotonic() + timeout_seconds
BkEnter ==
    /\ bk_pc = "call"
    /\ bk_deadline' = bk_now + bk_timeout
    /\ bk_pc' = "test"
    /\ UNCHANGED <<bk_conv, bk_timeout, bk_now, bk_fetched, bk_result>>
    /\ UNCHANGED nonbkvars

\* line 161, the loop test, and lines 199-201 when it fails
BkLoopTest ==
    /\ bk_pc = "test"
    /\ IF BeforeDeadline(bk_now, bk_deadline)
       THEN /\ bk_pc' = "fetch"
            /\ UNCHANGED bk_result
       ELSE /\ bk_pc' = "raised"
            /\ bk_result' = BkRaised("TimeoutError",
                                     TimeoutMessage(bk_timeout, bk_conv))
    /\ UNCHANGED <<bk_conv, bk_timeout, bk_now, bk_deadline, bk_fetched>>
    /\ UNCHANGED nonbkvars

\* lines 162-197 up to the sleep or the return: one fetch and its reading
BkPoll ==
    /\ bk_pc = "fetch"
    /\ \E got \in FetchOutcomes, took \in 0..BkMaxFetch :
          /\ bk_now' = bk_now + took
          \* failed_before counts the fetches before this one that raised
          /\ bk_fetched' =
                [got EXCEPT !.failed_before =
                    bk_fetched.failed_before
                        + (IF bk_fetched.exc # "" THEN 1 ELSE 0)]
          /\ IF got.exc # ""
             THEN IF CatchesFetch(got.exc)
                  THEN bk_pc' = "sleep" /\ UNCHANGED bk_result
                  ELSE /\ bk_pc' = "raised"
                       /\ bk_result' = BkRaised(got.exc, NoMessage)
             ELSE IF ~got.has_mapping \/ got.mapping = <<>>
             THEN \* KeyError or StopIteration, lines 175-178
                  bk_pc' = "sleep" /\ UNCHANGED bk_result
             ELSE LET msg == LatestNode(got.mapping)
                      content_text == _content_text(msg)
                  IN  IF msg.status # "finished_successfully"
                      THEN bk_pc' = "sleep" /\ UNCHANGED bk_result
                      ELSE IF msg.role = "assistant" /\ Truthy(content_text)
                      THEN /\ bk_pc' = "returned"
                           /\ bk_result' = BkReturned(content_text)
                      ELSE bk_pc' = "sleep" /\ UNCHANGED bk_result
    /\ UNCHANGED <<bk_conv, bk_timeout, bk_deadline>>
    /\ UNCHANGED nonbkvars

\* time.sleep(poll_interval), lines 167, 177, 187, 197
BkSleep ==
    /\ bk_pc = "sleep"
    /\ bk_now' = bk_now + BkPollInterval
    /\ bk_pc' = "test"
    /\ UNCHANGED <<bk_conv, bk_timeout, bk_deadline, bk_fetched, bk_result>>
    /\ UNCHANGED nonbkvars

BkNext == BkEnter \/ BkLoopTest \/ BkPoll \/ BkSleep

BkSpec == BkInit /\ [][BkNext]_vars

\* the call is always scheduled: it runs on its caller's thread
BkFairSpec == BkSpec /\ WF_vars(BkNext)

(***************************************************************************)
(* api/chat_service.py: _handle_completions                                *)
(*                                                                         *)
(* One POST /chat/completions is followed through the handler.  The body   *)
(* of the request and the outcome of browser_pool.ask_async are inputs.    *)
(* Message contents are str, which _content_to_str returns as they are.    *)
(***************************************************************************)

\* longest "messages" list of a request
ApiMaxMessages == 2

\* the values of SYSTEM_PROMPT_MODE explored ("keep" is any unlisted value)
ApiModes == {"delete", "merge", "keep"}

\* "Errors are normal"
TxtErrorsTopic ==
    <<"E", "r", "r", "o", "r", "s", " ", "a", "r", "e", " ", "n", "o", "r",
      "m", "a", "l">>

ApiMessages ==
    {[role |-> r, content |-> c] : r \in {"system", "user"},
                                   c \in {TxtHello, TxtTopic}}

Payloads ==
    [stream : {Absent, "true", "false"},
     temperature : {Absent, "0.7"},
     model : {Absent, "gpt-4o"},
     messages : Lists(ApiMessages, ApiMaxMessages)]

\* Python truthiness of the JSON values explored
JsonTruthy(v) == v \notin {Absent, "false", "null", "0", ""}

\* payload.pop(key, None)
Pop(payload, key) ==
    CASE key = "stream" -> [payload EXCEPT !.stream = Absent]
      [] key = "temperature" -> [payload EXCEPT !.temperature = Absent]

\* payload.get("stream", False), as a truth value
GetStream(payload) == JsonTruthy(payload.stream)

IsSystem(m) == m.role = "system"

NotSystem(m) == m.role # "system"

ContentsOf(messages) == [i \in 1..Len(messages) |-> messages[i].content]

\* lines 145-180: what the mode makes of the messages
Manipulate(mode, messages) ==
    LET system_texts == ContentsOf(SelectSeq(messages, IsSystem))
        rest == SelectSeq(messages, NotSystem)
    IN  IF mode = "delete" THEN rest
        ELSE IF mode = "merge"
        THEN IF Truthy(system_texts) /\ Truthy(rest)
             THEN [rest EXCEPT ![Len(rest)].content =
                       Join(system_texts) \o <<"\n">> \o @]
             ELSE rest
        ELSE messages

\* "".join(answer_chunks)
RECURSIVE Concat(_)
Concat(parts) ==
    IF parts = <<>> THEN <<>> ELSE Head(parts) \o Concat(Tail(parts))

\* s.startswith(prefix)
StartsWith(s, prefix) ==
    Len(s) >= Len(prefix) /\ SubSeq(s, 1, Len(prefix)) = prefix

\* s.partition(sep)[2]: what follows the first sep, "" when there is none
AfterFirst(s, sep) ==
    LET at == {i \in 1..Len(s) : s[i] = sep}
    IN  IF at = {} THEN <<>>
        ELSE SubSeq(s, (CHOOSE i \in at : \A j \in at : i <= j) + 1, Len(s))

TxtError == <<"e", "r", "r", "o", "r">>

\* what browser_pool.ask_async(prompt, model) gives the handler: the
\* "answer" of the dict pool.ask returns, or the exception it raises
AskAnswers ==
    {<<TxtHello>>, <<TxtNetBubble, TxtHello>>, <<TxtErrorsTopic>>,
     ErrorReply(TxtNetBubble), ErrorReply(TxtLenBubble),
     ErrorReply(NameGeneric)}

AskExceptions == {"TypeError", "UnboundLocalError", "WebDriverException"}

Response(code, message, exc, finish_reason, content) ==
    [status_code |-> code, message |-> message, exc |-> exc,
     finish_reason |-> finish_reason, content |-> content]

ApiInit ==
    /\ PoolIdle
    /\ DetIdle
    /\ ClsIdle
    /\ BkIdle
    /\ CmpIdle
    /\ api_pc = "json"
    /\ api_mode \in ApiModes
    /\ ApiFresh

\* lines 122-128: payload = await request.json(), or 400 for a ValueError
ApiJson ==
    /\ api_pc = "json"
    /\ \/ /\ api_response' =
                Response(400, "Invalid JSON", "", "", <<>>)
          /\ api_pc' = "done"
          /\ UNCHANGED <<api_request, api_payload>>
       \/ \E body \in Payloads :
             /\ api_request' = body
             /\ api_payload' = body
             /\ api_pc' = "strip"
             /\ UNCHANGED api_response
    /\ UNCHANGED <<api_mode, api_prompt, api_sent>>
    /\ UNCHANGED nonapivars

\* lines 133-135: strip unsupported parameters
ApiStrip ==
    /\ api_pc = "strip"
    /\ api_payload' = Pop(Pop(api_payload, "temperature"), "stream")
    /\ api_pc' = "flatten"
    /\ UNCHANGED <<api_request, api_mode, api_prompt, api_sent,
                   api_response>>
    /\ UNCHANGED nonapivars

\* lines 137-183: manipulate the messages and flatten them into the prompt
ApiFlatten ==
    /\ api_pc = "flatten"
    /\ api_prompt' =
          Join(ContentsOf(Manipulate(api_mode, api_payload.messages)))
    /\ api_pc' = "stream"
    /\ UNCHANGED <<api_request, api_payload, api_mode, api_sent,
                   api_response>>
    /\ UNCHANGED nonapivars

\* lines 185-189: if payload.get("stream", False): 501
ApiStreamCheck ==
    /\ api_pc = "stream"
    /\ IF GetStream(api_payload)
       THEN /\ api_response' =
                  Response(501, "stream=True not supported", "", "", <<>>)
            /\ api_pc' = "done"
       ELSE /\ api_pc' = "forward"
            /\ UNCHANGED api_response
    /\ UNCHANGED <<api_request, api_payload, api_mode, api_prompt, api_sent>>
    /\ UNCHANGED nonapivars

\* lines 201-263: the response made from the answer of the pool
ReplyResponse(answer_chunks) ==
    LET assistant_reply == Strip(Concat(answer_chunks))
        raw_msg == AfterFirst(assistant_reply, ":")
        error_msg == IF Truthy(Strip(raw_msg)) THEN Strip(raw_msg)
                     ELSE TxtError
    IN  IF StartsWith(Lower(assistant_reply), TxtError)
        THEN Response(500, "", "", "error", error_msg)
        ELSE Response(200, "", "", "stop", assistant_reply)

\* lines 191-263: forward the prompt to the pool and answer
ApiForward ==
    /\ api_pc = "forward"
    /\ \/ \E exc \in AskExceptions :
             /\ api_sent' = [sent |-> TRUE, prompt |-> api_prompt,
                             model |-> api_payload.model, answer |-> <<>>]
             /\ api_response' =
                   Response(500, "Browser worker error", exc, "", <<>>)
       \/ \E answer \in AskAnswers :
             /\ api_sent' = [sent |-> TRUE, prompt |-> api_prompt,
                             model |-> api_payload.model, answer |-> answer]
             /\ api_response' = ReplyResponse(answer)
    /\ api_pc' = "done"
    /\ UNCHANGED <<api_request, api_payload, api_mode, api_prompt>>
    /\ UNCHANGED nonapivars

ApiNext == ApiJson \/ ApiStrip \/ ApiFlatten \/ ApiStreamCheck \/ ApiForward

ApiSpec == ApiInit /\ [][ApiNext]_vars

(***************************************************************************)
(* Properties of the pool and of the retry protocol                        *)
(***************************************************************************)

\* pcs at which a thread holds the session lock
InInteraction == {"open", "send", "except", "classify"}

Finished(t) == pc[t] \in {"done", "raised"}

Last(s) == s[Len(s)]

\* a one-element sequence "error: <non-empty message>"
IsTerminalError(v) ==
    /\ Len(v) = 1
    /\ Len(v[1]) > Len(ErrorPrefix)
    /\ SubSeq(v[1], 1, Len(ErrorPrefix)) = ErrorPrefix

AllNetwork(l) == \A i \in 1..Len(l) : l[i] = "network"

\* C1: in every interleaving of concurrent first calls at most one
\* BrowserSession is constructed, and every caller that got a session from
\* _ensure_session got that one, the pool's.
C1_SingleConstruction ==
    /\ constructed <= 1
    /\ \A t \in Threads :
         session[t] # None => constructed = 1 /\ session[t] = pool_session

\* C1 witness: a thread raced past the unsynchronised check, took the lock
\* after the construction and is about to re-check, while another caller
\* already holds the session.
C1_Witness ==
    \E t, u \in Threads :
        /\ pc[t] = "ensure_recheck"
        /\ pool_session # None
        /\ session[u] = pool_session

\* C2: every pool.ask call whose session exists delegates to Session.ask
\* without failing and ends with a record of the session id and the
\* fragments.
C2_PoolAskDelegates ==
    \A t \in Threads :
        (nargs[t] = 3 /\ session[t] # None /\ Finished(t))
            => /\ result[t].kind = "return"
               /\ result[t].browser_id = session[t]

\* C3: per session at most one caller is inside the interaction (between
\* taking the lock and returning); the others wait at the lock.
C3_OneInteraction ==
    \A s \in SessionIds :
        Cardinality({t \in Threads : session[t] = s /\ pc[t] \in InInteraction})
            <= 1

\* C3 witness: one caller is in send_message while another waits for the lock
C3_Witness ==
    \E t, u \in Threads :
        pc[t] = "send" /\ pc[u] = "acquire" /\ session[t] = session[u]

\* C4: when every attempt so far was classified NETWORK, at most retries + 1
\* attempts have been made; the call ends exactly at attempt retries + 1,
\* with a terminal error.
C4_ExactRetryBound ==
    \A t \in Threads :
        (log[t] # <<>> /\ AllNetwork(log[t]))
            => /\ Len(log[t]) <= retries + 1
               /\ attempts[t] = IF pc[t] = "done" THEN Len(log[t]) - 1
                                ELSE Len(log[t])
               /\ (pc[t] = "done") = (Len(log[t]) = retries + 1)
               /\ pc[t] = "done" => IsTerminalError(result[t].value)

\* C4 witness: retry bound 2, three NETWORK attempts, then the error
C4_Witness ==
    \E t \in Threads :
        /\ retries = 2
        /\ log[t] = <<"network", "network", "network">>
        /\ pc[t] = "done"
        /\ result[t].value = ErrorReply(TxtNetBubble)

\* C5: an attempt classified LENGTH or GENERIC is the last attempt of its
\* call, and the call has returned a terminal error.
C5_NoRetryOnUnrecoverable ==
    \A t \in Threads :
        \A i \in 1..Len(log[t]) :
            log[t][i] \in {"length", "generic"}
                => /\ i = Len(log[t])
                   /\ pc[t] = "done"
                   /\ result[t].kind = "return"
                   /\ IsTerminalError(result[t].value)

\* C5 witness: a GENERIC attempt after a NETWORK retry ended the call
C5_Witness ==
    \E t \in Threads :
        /\ log[t] = <<"network", "generic">>
        /\ pc[t] = "done"
        /\ result[t].value = ErrorReply(NameGeneric)

\* C6: when the last attempt was classified NONE the call has returned that
\* attempt's fragments, unchanged.
C6_SuccessReturnsFragments ==
    \A t \in Threads :
        (log[t] # <<>> /\ Last(log[t]) = "none")
            => /\ pc[t] = "done"
               /\ result[t].kind = "return"
               /\ result[t].value = chunks[t].val

\* C6 witness: after a retried NETWORK attempt, a two-fragment reply whose
\* last fragment is a normal answer is returned whole
C6_Witness ==
    \E t \in Threads :
        /\ log[t] = <<"network", "none">>
        /\ pc[t] = "done"
        /\ result[t].value = <<TxtNetBubble, TxtHello>>

\* C7: an exception in open_new_chat or send_message is retried like a
\* NETWORK failure: while retries remain the call does not end.
C7_ExceptionIsRetried ==
    \A t \in Threads :
        (log[t] # <<>> /\ Last(log[t]) = "exception" /\ attempts[t] < retries)
            => ~Finished(t)

\* C8: no exception leaves Session.ask.
C8_NoExceptionEscapes ==
    \A t \in Threads :
        ~(result[t].kind = "raise" /\ result[t].where = "Session.ask")

(***************************************************************************)
(* Properties of send_message and of the completion detector               *)
(***************************************************************************)

\* the send_message call (made by Session.ask at time 0) has not ended
InSendMessage ==
    det_pc \in {"submit", "wait_first", "check_error", "poll", "sleep", "read"}

\* C9: an ask call given timeout_seconds = AskTimeout is never still
\* waiting after its deadline.
C9_AskBoundedByTimeout == InSendMessage => now <= AskTimeout

\* C10: a tick on which the stop button is present and no error bubble is
\* visible never ends the loop.
C10_BusyNeverCompletes ==
    (tick.busy /\ ~tick.err)
        => /\ tick.outcome \in {"stale", "raise", "empty", "reset"}
           /\ det_pc \in {"sleep", "poll", "raised"}

\* C10 witness: the loop keeps polling after a tick with the stop button
\* present whose text (no cursor) had been the same for longer than the
\* settle time.
C10_Witness ==
    /\ tick.busy /\ ~tick.err
    /\ tick.outcome = "reset"
    /\ det_pc = "sleep"
    /\ last_snapshot = TxtHello
    /\ now - text_since > StreamSettle

\* The state right after the decision of a tick (before its sleep or its
\* read): `now` is still the time of the tick.
JustTicked(o) == tick.outcome = o /\ det_pc \in {"sleep", "read", "raised"}

\* C11: a tick that reads a non-empty snapshot equal to the previous one,
\* without cursor, stop button or error bubble, is never answered by a
\* reset; it declares completion exactly when the time since the last reset
\* has reached the settle time, and keeps waiting only before that.
C11_CompletesWhenSettled ==
    /\ JustTicked("reset")
          => \/ tick.busy
             \/ EndsWith(last_snapshot, Cursor)
             \/ text_since = now
    /\ JustTicked("waiting") => now - stable_since < StreamSettle
    /\ JustTicked("settled")
          => /\ now - stable_since >= StreamSettle
             /\ det_pc = "read"

\* C11 witness: settle time 0.8 s; the text first sampled at the last reset
\* is sampled again, unchanged, 1.0 s later with no stop button: completion.
C11_Witness ==
    /\ JustTicked("settled")
    /\ ~tick.busy
    /\ last_snapshot = TxtHello
    /\ text_since = stable_since
    /\ now - stable_since = 10

\* C12: a tick on which an error bubble is visible ends the loop on that
\* tick, whatever the stop button, the cursor and the snapshot are.
C12_ErrorStopsAtOnce ==
    tick.err => /\ tick.outcome = "error"
                /\ det_pc \in {"read", "returned"}

\* C12 witness: the loop ended on an error tick while the stop button was
\* present, the last text carried the cursor and nothing had settled.
C12_Witness ==
    /\ JustTicked("error")
    /\ tick.busy
    /\ last_snapshot = TxtStreaming
    /\ now - stable_since < StreamSettle

\* C13: when the loop ended on an error tick, send_message returns the text
\* of the error bubble.
C13_ErrorBubbleReturned ==
    (tick.outcome = "error" /\ det_pc = "returned")
        => sm_result \in {StripAll(e) : e \in ErrorPages \ {<<>>}}

\* C14: a tick that samples an empty or whitespace-only snapshot resets the
\* timer and sleeps; every tick that waits, resets for another reason or
\* declares completion sampled a non-empty snapshot.
C14_EmptyNeverCompletes ==
    /\ JustTicked("empty")
          => /\ ~Truthy(Strip(last_snapshot))
             /\ stable_since = now
             /\ det_pc = "sleep"
    /\ (JustTicked("reset") \/ JustTicked("waiting") \/ JustTicked("settled"))
          => Truthy(Strip(last_snapshot))
    /\ tick.outcome = "settled" => Truthy(Strip(last_snapshot))

\* C14 witness: the snapshot has been the same whitespace for longer than
\* the settle time, no stop button is present, and the loop polls on.
C14_Witness ==
    /\ JustTicked("empty")
    /\ ~tick.busy
    /\ last_snapshot = TxtBlank
    /\ now - text_since > StreamSettle

\* C15: a stale-element failure of the read never leaves the loop: the tick
\* is followed by a sleep of half the poll interval and the next tick.
C15_StaleSwallowed ==
    tick.exc = "StaleElementReferenceException"
        => /\ tick.outcome = "stale"
           /\ det_pc \in {"sleep", "poll"}
           /\ det_pc = "sleep" => sleep_for = PollInterval \div 2

\* C15 witness: stale reads are all that has happened since the loop was
\* entered, and it is about to sleep for half the poll interval again
C15_Witness ==
    /\ JustTicked("stale")
    /\ sleep_for = 1
    /\ now >= PollInterval
    /\ stable_since = 0
    /\ last_snapshot = <<>>

ClsDone == cls_pc = "done"

ClsLast == cls_chunks[Len(cls_chunks)]

AllPatterns == _NETWORK_PATTERNS \cup _LENGTH_PATTERNS

\* C16: detect_error of the empty fragment list is GENERIC.
C16_EmptyIsGeneric ==
    (ClsDone /\ cls_chunks = <<>>) => cls_result = "generic"

\* C16 witness: detect_error has returned GENERIC for the empty list
C16_Witness == ClsDone /\ Len(cls_chunks) = 0 /\ cls_result = "generic"

\* C17: a fragment list whose last element is, after strip(), longer than
\* _MAX_ERROR_CHARS is classified NONE whatever it and the earlier
\* fragments say.
C17_LongIsNone ==
    (ClsDone /\ cls_chunks # <<>> /\ Len(Strip(ClsLast)) > _MAX_ERROR_CHARS)
        => cls_result = "none"

\* C17 witness: a 181-character last fragment that begins with a network
\* phrase, after a length bubble, was classified NONE
C17_Witness ==
    /\ ClsDone
    /\ cls_chunks = <<TxtLenBubble, TxtOverCeiling>>
    /\ Len(Strip(ClsLast)) = _MAX_ERROR_CHARS + 1
    /\ cls_result = "none"

\* C18: a fragment list whose last element is, after strip(), at most
\* _MAX_ERROR_CHARS long and whose canonical form is a network phrase is
\* classified NETWORK.
C18_NetworkPhraseIsNetwork ==
    (/\ ClsDone
     /\ cls_chunks # <<>>
     /\ Len(Strip(ClsLast)) <= _MAX_ERROR_CHARS
     /\ RStrip(Lower(Strip(ClsLast)), {".", "!", " "}) \in _NETWORK_PATTERNS)
        => cls_result = "network"

\* C18 witness: ["A network error occurred."] was classified NETWORK
C18_Witness ==
    ClsDone /\ cls_chunks = <<TxtNetBubble>> /\ cls_result = "network"

\* C19: the classification of a non-empty fragment list is the
\* classification of the list made of its last fragment alone.
C19_OnlyLastFragment ==
    (ClsDone /\ cls_chunks # <<>>)
        => cls_result = detect_error(<<ClsLast>>)

\* C19 witness: a normal answer after a network bubble was classified NONE
C19_Witness ==
    ClsDone /\ cls_chunks = <<TxtNetBubble, TxtHello>> /\ cls_result = "none"

\* a pattern inside the canonical text, with more text around it
ProperlyContains(text, pattern) ==
    LET c == RStrip(Lower(Strip(text)), {".", "!", " "})
    IN  Contains(c, pattern) /\ c # pattern

\* C20 as stated: a last fragment that contains a network or length phrase
\* with other words around it is classified NONE.
C20_ContainmentIsNone ==
    (/\ ClsDone
     /\ cls_chunks # <<>>
     /\ \E p \in AllPatterns : ProperlyContains(ClsLast, p))
        => cls_result = "none"

\* C20 amended: a last fragment that contains a network or length phrase
\* with other words around it, and whose canonical form is not itself one of
\* the phrases, is classified NONE.
C20_ContainmentOnlyIsNone ==
    (/\ ClsDone
     /\ cls_chunks # <<>>
     /\ \E p \in AllPatterns : ProperlyContains(ClsLast, p)
     /\ RStrip(Lower(Strip(ClsLast)), {".", "!", " "}) \notin AllPatterns)
        => cls_result = "none"

\* C20 witness: "What is a network error?" was classified NONE
C20_Witness ==
    /\ ClsDone
    /\ Len(cls_chunks) = 1
    /\ ClsLast = TxtTopic
    /\ ProperlyContains(ClsLast, PatNetworkError)
    /\ cls_result = "none"

(***************************************************************************)
(* Properties of wait_for_completion                                       *)
(***************************************************************************)

\* the latest fetch returned a mapping with at least one node
BkGotNodes ==
    /\ bk_fetched.exc = ""
    /\ bk_fetched.has_mapping
    /\ bk_fetched.mapping # <<>>

BkNewest == bk_fetched.mapping[Len(bk_fetched.mapping)]

\* ... and its newest node is a finished assistant message with content
BkNewestQualifies ==
    /\ BkGotNodes
    /\ BkNewest.status = "finished_successfully"
    /\ BkNewest.role = "assistant"
    /\ _content_text(BkNewest) # <<>>

\* C21: wait_for_completion returns only on a poll whose newest node is a
\* finished assistant message with non-empty extracted content, it returns
\* that content, and after every other poll it sleeps and polls again.
C21_ReturnsOnlyQualifying ==
    /\ bk_result.kind = "return"
          => /\ bk_pc = "returned"
             /\ BkNewestQualifies
             /\ bk_result.text = _content_text(BkNewest)
    /\ bk_pc = "sleep" => ~BkNewestQualifies

\* C21 witness: the reply "Hello" was returned from the newest of two nodes,
\* whose parts join to "Hello\n " before strip()
C21_Witness ==
    /\ bk_pc = "returned"
    /\ Len(bk_fetched.mapping) = 2
    /\ bk_fetched.mapping[1].role = "user"
    /\ BkNewest.content = TextContent(<<TxtHello, TxtBlank>>)
    /\ bk_result.text = TxtHello

\* C22: a poll whose newest node has content_type "thoughts" never returns,
\* whatever the node's status and role: the call sleeps and polls again.
C22_ThoughtsSkipped ==
    (BkGotNodes /\ BkNewest.content.content_type = "thoughts")
        => /\ bk_result.kind # "return"
           /\ bk_pc \in {"sleep", "test", "fetch", "raised"}

\* C22 witness: a finished assistant node with thoughts was fetched and the
\* call is about to sleep
C22_Witness ==
    /\ bk_pc = "sleep"
    /\ BkGotNodes
    /\ BkNewest = Node("assistant", "finished_successfully", ThoughtsContent)

\* C23: a fetch that raises never ends the call, and a qualifying node
\* fetched after any number of failed fetches is returned.
C23_FetchFailureNotFatal ==
    /\ bk_fetched.exc # ""
          => /\ bk_pc \in {"sleep", "test", "fetch", "raised"}
             /\ bk_result.kind # "return"
    /\ bk_result.kind = "raise" => bk_result.exc = "TimeoutError"
    /\ (bk_fetched.failed_before > 0 /\ BkNewestQualifies)
          => /\ bk_pc = "returned"
             /\ bk_result = BkReturned(_content_text(BkNewest))

\* C23 witness: the reply was returned by the third fetch after two fetches
\* that raised
C23_Witness ==
    /\ bk_pc = "returned"
    /\ bk_fetched.failed_before = 2
    /\ bk_result.text = TxtHello
    /\ bk_now < bk_deadline

\* the call has returned or raised
BkTerminated == bk_pc \in {"returned", "raised"}

\* the longest one iteration of the loop takes
BkIteration == BkMaxFetch + BkPollInterval

\* C24: no fetch starts at or after the deadline, so the clock never passes
\* the deadline by more than one iteration; a call that raises raises
\* TimeoutError, at or after the deadline, with the conversation id in its
\* message and without a text; and every call terminates.
C24_TerminatesAtDeadline ==
    /\ [](bk_pc = "fetch" => bk_now < bk_deadline)
    /\ [](bk_pc # "off" => bk_now < bk_deadline + BkIteration)
    /\ [](bk_pc = "raised"
            => /\ bk_result.kind = "raise"
               /\ bk_result.exc = "TimeoutError"
               /\ bk_result.text = <<>>
               /\ bk_result.message.conv_id = bk_conv
               /\ bk_now >= bk_deadline)
    /\ <>BkTerminated

\* C24 witness: TimeoutError naming the conversation was raised after polls
\* that found a node still in progress and fetches that raised
C24_Witness ==
    /\ bk_pc = "raised"
    /\ bk_result.exc = "TimeoutError"
    /\ bk_result.message = TimeoutMessage(bk_timeout, "conv-a")
    /\ bk_conv = "conv-a"
    /\ bk_timeout >= 2
    /\ bk_fetched.failed_before >= 1
    /\ BkGotNodes
    /\ BkNewest.status = "in_progress"

(***************************************************************************)
(* Properties of the HTTP front end                                        *)
(***************************************************************************)

\* C25: a request whose body says stream = true is never forwarded to the
\* browser pool and is answered with 501 "stream=True not supported".
C25_StreamRequestRejected ==
    api_request.stream = "true"
        => /\ ~api_sent.sent
           /\ api_pc = "done" => api_response.status_code = 501

(***************************************************************************)
(* Properties of the driver's life cycle                                   *)
(***************************************************************************)

\* C26: while a thread holds a session in an interaction, no other thread is
\* inside the quit() of that session's driver.
C26_DriverNeverShared ==
    \A s \in SessionIds : \A t, u \in Threads :
        (session[t] = s /\ pc[t] \in InInteraction)
            => ~(session[u] = s /\ pc[u] = "quitting")

\* C27: the quit() of a session's driver is entered at most once, however
\* many times shutdown() is called.
C27_ShutdownIdempotent ==
    \A s \in SessionIds : driver_quits[s] <= 1

\* C29: every terminal-error return of Session.ask is one fragment made of
\* "error: " and a non-empty message, which is the last fragment of the
\* reply or, when the reply has none, the lower-case name of the error type.
C29_ErrorReturnShape ==
    \A t \in Threads :
        (/\ result[t].kind = "return"
         /\ log[t] # <<>>
         /\ Last(log[t]) # "none")
            => LET v == result[t].value
                   c == chunks[t].val
                   message == SubSeq(v[1], Len(ErrorPrefix) + 1, Len(v[1]))
               IN  /\ Len(v) = 1
                   /\ StartsWith(v[1], ErrorPrefix)
                   /\ message # <<>>
                   /\ message = IF c # <<>> THEN Last(c)
                                ELSE IF Last(log[t]) = "exception"
                                THEN TxtNetworkError
                                ELSE NameLower(Last(log[t]))

\* C29 witness: an empty reply was answered with ["error: generic"], and a
\* length bubble with "error: " and the bubble's text
C29_Witness ==
    \E t, u \in Threads :
        /\ result[t].kind = "return"
        /\ Last(log[t]) = "generic"
        /\ result[t].value = <<ErrorPrefix \o NameGeneric>>
        /\ result[u].kind = "return"
        /\ Last(log[u]) = "length"
        /\ result[u].value = <<ErrorPrefix \o TxtLenBubble>>

\* C30: whenever send_message is about to be called, the conversation of
\* the session's driver is the one open_new_chat has just opened.
C30_FreshConversation ==
    \A t \in Threads :
        pc[t] = "send" => conversation[session[t]] = "fresh"

\* C30 witness: a retry is about to send into a fresh conversation after
\* another request has used the same session
C30_Witness ==
    \E t, u \in Threads :
        /\ pc[t] = "send"
        /\ attempts[t] = 1
        /\ Last(log[t]) = "network"
        /\ conversation[session[t]] = "fresh"
        /\ pc[u] = "done"
        /\ session[u] = session[t]
        /\ log[u] # <<>>

\* C31: Session.ask never returns an empty sequence of fragments; an attempt
\* whose send_message gave no fragments is classified GENERIC and the call
\* returns the one fragment "error: generic".
C31_NeverReturnsEmpty ==
    \A t \in Threads :
        /\ result[t].kind = "return" => Len(result[t].value) >= 1
        /\ (/\ chunks[t].bound
            /\ chunks[t].val = <<>>
            /\ pc[t] # "classify")
               => /\ log[t] # <<>>
                  /\ Last(log[t]) = "generic"
                  /\ pc[t] = "done"
                  /\ result[t].kind = "return"
                  /\ result[t].value = ErrorReply(NameGeneric)

\* C31 witness: after a retried NETWORK attempt send_message gave nothing,
\* and the call returned the one-fragment error
C31_Witness ==
    \E t \in Threads :
        /\ log[t] = <<"network", "generic">>
        /\ chunks[t].val = <<>>
        /\ result[t].kind = "return"
        /\ Len(result[t].value) = 1

(***************************************************************************)
(* Queued callers under a fair scheduler                                   *)
(*                                                                         *)
(* Every thread that is inside pool.ask keeps running: the operating       *)
(* system schedules each runnable thread, and a driver call in progress    *)
(* ends (by returning or by raising).                                      *)
(***************************************************************************)

\* the steps of thread t between its call and the end of the call
ThreadStep(t) ==
    \/ EnsureCheck(t)
    \/ EnsureLock(t)
    \/ EnsureRecheck(t)
    \/ ConstructOk(t)
    \/ ConstructFails(t)
    \/ EnsureReturn(t)
    \/ Delegate(t)
    \/ Acquire(t)
    \/ OpenNewChat(t)
    \/ OpenNewChatRaises(t)
    \/ SendMessage(t)
    \/ SendMessageRaises(t)
    \/ ExceptHandler(t)
    \/ Classify(t)

\* NETWORK_ERROR_RETRIES=1: a call can hold the lock across two attempts
FairInit ==
    /\ retries = 1
    /\ PoolFresh
    /\ DetIdle
    /\ ClsIdle
    /\ OthersIdle

FairSpec ==
    FairInit /\ [][Next]_vars /\ WF_vars(\E t \in Threads : ThreadStep(t))

\* C32: while the threads keep running, every caller that waits for the
\* session lock eventually finishes its call, and has then left Session.ask
\* (on whatever path) without the lock.
C32_LockAlwaysReleased ==
    \A t \in Threads :
        (pc[t] = "acquire")
            ~> (Finished(t) /\ \A s \in SessionIds : session_lock[s] # t)

\* C32 witness: a caller is inside the interaction after an earlier caller of
\* the same session left Session.ask with an exception that escaped
C32_Witness ==
    \E t, u \in Threads :
        /\ pc[u] = "raised"
        /\ result[u].where = "Session.ask"
        /\ session[t] = session[u]
        /\ pc[t] = "open"
        /\ session_lock[session[t]] = t

\* C33: from its first attempt to its return, retries included, a caller
\* holds the lock of its session, and no other caller of that session is at
\* open_new_chat, at send_message or anywhere else inside the interaction.
C33_LockHeldAcrossRetries ==
    \A t \in Threads :
        pc[t] \in InInteraction
            => /\ session_lock[session[t]] = t
               /\ \A u \in Threads \ {t} :
                    session[u] = session[t] => pc[u] \notin InInteraction

\* C33 witness: a caller is about to retry after a NETWORK attempt while
\* another caller of the same session waits for the lock
C33_Witness ==
    \E t, u \in Threads :
        /\ pc[t] = "open"
        /\ attempts[t] >= 1
        /\ Last(log[t]) = "network"
        /\ session_lock[session[t]] = t
        /\ pc[u] = "acquire"
        /\ session[u] = session[t]

\* C34: a step in which the constructor raises leaves the pool without a
\* session, frees the creation lock, constructs nothing and touches no other
\* caller; the creation lock is only ever held by a caller that is still
\* inside _ensure_session, so the next caller constructs again; and at most
\* one session is ever constructed.
C34_FailedConstructionIsolated ==
    /\ [](/\ constructed <= 1
          /\ create_lock # None
                => pc[create_lock] \in {"ensure_recheck", "construct"}
          /\ \A t \in Threads : pc[t] = "construct" => pool_session = None)
    /\ [][\A t \in Threads :
            (pc[t] = "construct" /\ pc'[t] = "raised")
                => /\ pool_session = None
                   /\ pool_session' = None
                   /\ create_lock' = None
                   /\ constructed' = constructed
                   /\ session'[t] = None
                   /\ \A u \in Threads \ {t} :
                        pc'[u] = pc[u] /\ result'[u] = result[u]]_vars

\* C34 witness: after one caller's construction failed, another caller
\* constructed the pool's session
C34_Witness ==
    \E t, u \in Threads :
        /\ pc[u] = "raised"
        /\ result[u].where = "_ensure_session"
        /\ session[u] = None
        /\ pc[t] = "ensure_return"
        /\ pool_session # None
        /\ constructed = 1
        /\ create_lock = None

\* C35: on a tick that declares completion without an error bubble, the
\* sampled snapshot is non-empty, has no trailing cursor and equals
\* last_snapshot, the stop button was absent, and the settle time has passed
\* since the latest tick that saw the stop button, a cursor, an empty
\* snapshot or a changed snapshot.
C35_CompletionAfterQuietPeriod ==
    JustTicked("settled")
        => /\ Truthy(Strip(tick.joined))
           /\ ~EndsWith(tick.joined, Cursor)
           /\ tick.joined = last_snapshot
           /\ ~tick.busy
           /\ tick.disturbed_at >= 0
           /\ now - tick.disturbed_at >= StreamSettle

\* C36: a tick whose read of the blocks fails with a stale element leaves
\* last_snapshot and stable_since as they were and goes to sleep, and the
\* sleep leaves them too: the settle time keeps running over failed reads.
C36_StaleKeepsWindow ==
    [][/\ (/\ det_pc = "poll"
           /\ det_pc' # "poll"
           /\ tick'.exc = "StaleElementReferenceException")
          => /\ det_pc' = "sleep"
             /\ last_snapshot' = last_snapshot
             /\ stable_since' = stable_since
       /\ det_pc = "sleep"
          => /\ last_snapshot' = last_snapshot
             /\ stable_since' = stable_since]_vars

\* C36 witness: completion is declared 0.8 s after the window started,
\* although a read failed in between (on a tick that saw the stop button)
C36_Witness ==
    /\ JustTicked("settled")
    /\ now - stable_since = StreamSettle
    /\ ~tick.busy
    /\ tick.disturbed_at > stable_since

\* C37: a fragment list whose last fragment is the full text of the length
\* bubble, as the error locator matches it, is classified LENGTH.
C37_LengthBubbleIsLength ==
    (ClsDone /\ cls_chunks # <<>> /\ ClsLast = TxtLenBubbleFull)
        => cls_result = "length"

\* C38: when the pool has answered, the handler reports an error completion
\* (status 500, finish_reason "error") if the answer is a terminal error of
\* Session.ask, and otherwise a success (status 200, finish_reason "stop")
\* whose content is the text of the answer.
C38_ErrorOnlyForTerminalError ==
    (api_pc = "done" /\ api_sent.sent /\ api_response.exc = "")
        => IF IsTerminalError(api_sent.answer)
           THEN /\ api_response.status_code = 500
                /\ api_response.finish_reason = "error"
           ELSE /\ api_response.status_code = 200
                /\ api_response.finish_reason = "stop"
                /\ api_response.content = Concat(api_sent.answer)

(***************************************************************************)
(* Properties of the two polling loops side by side                        *)
(***************************************************************************)

\* C39: given the same reads and no stop button or error bubble, the loop
\* of web_automator.py and the loop of main.py have the same locals after
\* every iteration, ask for the same sleep, and declare completion on the
\* same iteration.
C39_LoopsAgree ==
    /\ cmp_auto = cmp_main
    /\ (cmp_auto.outcome = "settled") = (cmp_main.outcome = "settled")

\* C39 witness: both loops have declared completion on the same iteration,
\* for a text whose stability window started after the loops were entered
\* and has lasted longer than the settle time
C39_Witness ==
    /\ cmp_pc = "done"
    /\ cmp_auto.outcome = "settled"
    /\ cmp_main.outcome = "settled"
    /\ cmp_auto.last_snapshot = TxtHello
    /\ cmp_auto.stable_since > 0
    /\ cmp_now - cmp_auto.stable_since > StreamSettle

====
